---- MODULE Spec2Model ----
(***************************************************************************)
(* Offline caching and fetch interception of the CalmStart PWA:            *)
(* service-worker.js (install, activate and fetch handlers) and the cache  *)
(* facade of app.js (isSessionCached, the offline toggle).                 *)
(*                                                                         *)
(* A path is the sequence of its '/'-separated segments, so '/index.html'  *)
(* is <<"", "index.html">> and './index.html' is <<".", "index.html">>.    *)
(* A store name is the sequence of its '-'-separated parts.  A request is  *)
(* a GET for [path, search]; a store key is a request.  The worker script  *)
(* is served from the origin root, so './x' resolves to '/x'.              *)
(***************************************************************************)
EXTENDS Naturals, Sequences, FiniteSets, TLC

\* ------------------------------------------------------------- bounds
\* Operations in flight at once: fetch events being handled, cache.put calls
\* not yet settled, a running toggle handler, a running isSessionCached call.
MaxInFlight == 2

\* ------------------------------------------------------ program constants
CACHE_NAME == <<"calmstart", "shell", "v3">>

SHELL_ASSETS ==
  << <<".", "">>,
     <<".", "index.html">>,
     <<".", "app.html">>,
     <<".", "styles.css">>,
     <<".", "app.js">>,
     <<".", "manifest.webmanifest">>,
     <<".", "privacy.html">>,
     <<".", "sessions.json">>,
     <<".", "assets", "icon-192.png">>,
     <<".", "assets", "icon-512.png">> >>

AUDIO_CACHE == <<"calmstart", "audio", "v1">>

AudioFamily == <<"calmstart", "audio">>

\* ------------------------------------------------------------ environment
\* The shell store of the version this one supersedes.
PRIOR_CACHE == <<"calmstart", "shell", "v2">>

\* Other stores the origin may hold when this version is registered: an audio
\* store of an older naming, and a store of no family.
OLD_AUDIO_CACHE == <<"calmstart", "audio", "v0">>

TMP_CACHE == <<"tmp", "cache">>

\* The session file of the catalog (sessions.json).
RainFile == [path |-> <<"", "audio", "rain.mp3">>, search |-> ""]

CatalogFiles == {RainFile}

\* A second session file, cached on an earlier visit.
SeaFile == [path |-> <<"", "audio", "sea.mp3">>, search |-> ""]

\* sessions.json as loadSessions reads it: two sessions of two categories.
Catalog ==
  << [id |-> "rain", file |-> RainFile, category |-> "sleep"],
     [id |-> "sea", file |-> SeaFile, category |-> "focus"] >>

\* The values of #categoryFilter.
Filters == {"all"} \cup { Catalog[i].category : i \in DOMAIN Catalog }

\* A media file outside /audio/, which an older audio store may still hold.
CalmFile == [path |-> <<"", "media", "calm.mp3">>, search |-> ""]

IndexReq == [path |-> <<"", "index.html">>, search |-> ""]

IndexQueryReq == [path |-> <<"", "index.html">>, search |-> "?source=pwa"]

\* The requests a controlled page issues.
Requests == {IndexReq, IndexQueryReq, CalmFile} \cup CatalogFiles

Null == [none |-> TRUE]

Absent == [absent |-> TRUE]

Rejected == [rejected |-> TRUE]

\* The source of a response that no store and no server gave.
NoSource == << >>

\* ---------------------------------------------------------------- helpers
SeqToSet(s) == { s[i] : i \in 1..Len(s) }

\* String.prototype.startsWith on a store name.
StartsWith(k, prefix) ==
  /\ Len(k) >= Len(prefix)
  /\ SubSeq(k, 1, Len(prefix)) = prefix

\* '.' + url.pathname
DotPath(p) == <<"." \o p[1]>> \o Tail(p)

\* url.pathname.includes('/audio/'): a segment "audio" between two slashes.
IncludesAudio(p) == \E i \in 2..(Len(p) - 1) : p[i] = "audio"

\* The URL a shell asset resolves to against the worker's location.
Resolve(rel) == [path |-> <<"">> \o Tail(rel), search |-> ""]

ShellKeys == { Resolve(SHELL_ASSETS[i]) : i \in 1..Len(SHELL_ASSETS) }

\* The branch of the fetch handler a request takes.
Classify(req) ==
  IF req.path \in SeqToSet(SHELL_ASSETS) \/ DotPath(req.path) \in SeqToSet(SHELL_ASSETS)
  THEN "shell"
  ELSE IF IncludesAudio(req.path) THEN "audio" ELSE "default"

\* A response: its status, and its body as the URL it was served for and the
\* release of the content ("v2": what the prior version installed; "v3": what
\* the origin serves now).
Response(status, req, rel) == [status |-> status, url |-> req, rel |-> rel]

\* Response.error()
NetworkError == [status |-> 0, url |-> Null, rel |-> "error"]

\* Response.prototype.clone
Clone(resp) == [status |-> resp.status, url |-> resp.url, rel |-> resp.rel]

\* --------------------------------------------------------- store namespace
\* caches: the stores in order of creation, each [name, entries]; entries is
\* a function from the keys present to their responses.
StoreNames(cs) == { cs[i].name : i \in 1..Len(cs) }

IndexOf(cs, name) == CHOOSE i \in 1..Len(cs) : cs[i].name = name

EntriesOf(cs, name) ==
  IF name \in StoreNames(cs) THEN cs[IndexOf(cs, name)].entries ELSE << >>

\* caches.open(name): creates the store when it does not exist.
Open(cs, name) ==
  IF name \in StoreNames(cs) THEN cs
  ELSE Append(cs, [name |-> name, entries |-> << >>])

\* cache.match(key) in one store.
Match(cs, name, key) ==
  IF key \in DOMAIN EntriesOf(cs, name) THEN EntriesOf(cs, name)[key] ELSE Absent

\* caches.match(key): the first store, in creation order, that holds the key.
HoldersOf(cs, key) == { i \in 1..Len(cs) : key \in DOMAIN cs[i].entries }

FirstHolder(cs, key) ==
  CHOOSE i \in HoldersOf(cs, key) : \A j \in HoldersOf(cs, key) : i <= j

MatchAny(cs, key) ==
  IF HoldersOf(cs, key) = {} THEN Absent ELSE cs[FirstHolder(cs, key)].entries[key]

MatchAnySource(cs, key) ==
  IF HoldersOf(cs, key) = {} THEN NoSource ELSE cs[FirstHolder(cs, key)].name

\* Mutant of Put: the response is retrieved and not stored.
PutNothing(cs, name, key, resp) == cs

\* Mutant of Put: the store is emptied before the entry is written.
PutOnly(cs, name, key, resp) ==
  [cs EXCEPT ![IndexOf(cs, name)].entries = (key :> resp)]

\* Mutant of Put: writing over an entry keeps the body that was there.
PutMerged(cs, name, key, resp) ==
  [cs EXCEPT ![IndexOf(cs, name)].entries =
     (key :> (IF key \in DOMAIN @ THEN [resp EXCEPT !.rel = "mixed"] ELSE resp)) @@ @]

\* cache.put(key, resp) on an open store.
Put(cs, name, key, resp) ==
  [cs EXCEPT ![IndexOf(cs, name)].entries = (key :> resp) @@ @]

\* Mutant of Delete: the store is emptied.
DeleteEvery(cs, name, key) ==
  [cs EXCEPT ![IndexOf(cs, name)].entries = << >>]

\* cache.delete(key)
Delete(cs, name, key) ==
  [cs EXCEPT ![IndexOf(cs, name)].entries =
     [k \in (DOMAIN @) \ {key} |-> @[k]]]

\* caches.delete(name)
DeleteStore(cs, name) == SelectSeq(cs, LAMBDA s : s.name # name)

\* cache.addAll(SHELL_ASSETS) once every asset was retrieved.
PutAll(cs, name) ==
  [cs EXCEPT ![IndexOf(cs, name)].entries =
     [k \in ShellKeys |-> Response(200, k, "v3")] @@ @]

\* ------------------------------------------------------------------ state
VARIABLES
  caches,          \* the store namespace of the origin
  swState,         \* lifecycle state of this version of the worker
  swPc,            \* the pending promise of the running lifecycle handler
  skipWaitingFlag, \* set by self.skipWaiting()
  toDelete,        \* stores whose caches.delete() is pending
  reaped,          \* stores whose caches.delete() has settled
  active,          \* the registration's active worker: none, prior, current
  controller,      \* the worker controlling the open page
  h,               \* the fetch events being handled
  pendingPuts,     \* cache.put() calls issued by the audio branch, not settled
  current,         \* app.js: the session file now playing, or Null
  toggle,          \* app.js: #offlineToggle.checked
  tg,              \* the running change handlers of the offline toggle
  ic,              \* the running calls of isSessionCached
  delivered,       \* keys whose write-through response reached the page
  lastToggle,      \* history: the last change event since the session was
                   \* selected: "none", "on", "off"; "mixed" when a handler
                   \* of an earlier session was running at the selection
  failed,          \* history: a change handler has called showError
  sessions,        \* app.js: the loaded catalog, empty before loadSessions
  categoryFilter,  \* app.js: #categoryFilter.value
  list,            \* app.js: the items of #sessionList, in document order
  rd,              \* the running invocations of renderSessions
  lastFilter,      \* history: the filter of the invocation started last
  wakeLock,        \* app.js: the sentinel wakeLock refers to, or Null
  held,            \* the sentinels acquired and not released
  wl,              \* the pending navigator.wakeLock.request() calls, each
                   \* with what its caller does next
  paused,          \* audio.paused
  playPending,     \* the playPause handler is at await audio.play()
  visible          \* document.visibilityState === 'visible'

vars == << caches, swState, swPc, skipWaitingFlag, toDelete, reaped, active,
           controller, h, pendingPuts, current, toggle, tg, ic, delivered,
           lastToggle, failed, sessions, categoryFilter, list, rd, lastFilter,
           wakeLock, held, wl, paused, playPending, visible >>

swVars == << swState, swPc, skipWaitingFlag, toDelete, reaped, active, controller >>

pageVars == << current, toggle, tg, ic >>

\* The variables of the page that the worker and the stores do not depend on.
viewVars == << sessions, categoryFilter, list, rd, lastFilter >>

playerVars == << wakeLock, held, wl, paused, playPending, visible >>

otherVars == << lastToggle, failed, viewVars, playerVars >>

coreVars == << caches, swVars, h, pendingPuts, pageVars, delivered >>

\* What the prior version left behind: its shell store, filled at its install.
PriorStore ==
  [name |-> PRIOR_CACHE, entries |-> [k \in ShellKeys |-> Response(200, k, "v2")]]

OldAudioStore ==
  [name |-> OLD_AUDIO_CACHE, entries |-> (CalmFile :> Response(200, CalmFile, "v2"))]

TmpStore == [name |-> TMP_CACHE, entries |-> << >>]

\* AudioStore as an earlier visit left it.
KeptAudioStore ==
  [name |-> AUDIO_CACHE, entries |-> (SeaFile :> Response(200, SeaFile, "v2"))]

\* The namespace when this version is registered: a first visit, or an upgrade
\* from the prior version of an origin that also holds an older audio store,
\* a store of no family and AudioStore.
InitialNamespaces ==
  { << >>, <<PriorStore, OldAudioStore, TmpStore, KeptAudioStore>> }

InitStores ==
  /\ caches \in InitialNamespaces
  /\ active = (IF PRIOR_CACHE \in StoreNames(caches) THEN "prior" ELSE "none")
  /\ controller = active
  /\ swState = "parsed"
  /\ swPc = "-"
  /\ skipWaitingFlag = FALSE
  /\ toDelete = {}
  /\ reaped = {}
  /\ h = {}
  /\ pendingPuts = {}
  /\ current = Null
  /\ toggle = FALSE
  /\ tg = {}
  /\ ic = {}
  /\ delivered = {}
  /\ lastToggle = "none"
  /\ failed = FALSE

\* Nothing plays, no wake lock was requested, the page is shown.
InitPlayer ==
  /\ wakeLock = Null
  /\ held = {}
  /\ wl = << >>
  /\ paused = TRUE
  /\ playPending = FALSE
  /\ visible = TRUE

\* One item of #sessionList: the session and its Offline badge.
Item(s, isCached) == [id |-> s.id, offline |-> isCached]

\* The page with the catalog loaded and the list rendered once.
Init ==
  /\ InitStores
  /\ sessions = Catalog
  /\ categoryFilter = "all"
  /\ list = [i \in DOMAIN Catalog |->
              Item(Catalog[i], Match(caches, AUDIO_CACHE, Catalog[i].file) # Absent)]
  /\ rd = << >>
  /\ lastFilter = "all"
  /\ InitPlayer

\* ------------------------------------------------------------- the network
\* fetch(req) settles: it rejects, or resolves with the origin's answer.
NetOutcomes(req) ==
  {Rejected} \cup { Response(s, req, "v3") : s \in {200, 404} }


\* ------------------------------------------------------- install transition
\* The install event: waitUntil(caches.open(...)...) is pending and
\* self.skipWaiting() has run.  A failed install is retried by registering again.
InstallEvent ==
  /\ swState \in {"parsed", "redundant"}
  /\ active # "current"
  /\ swState' = "installing"
  /\ swPc' = "open"
  /\ skipWaitingFlag' = TRUE
  /\ UNCHANGED << otherVars, caches, toDelete, reaped, active, controller, h, pendingPuts,
                  pageVars, delivered >>

\* caches.open(CACHE_NAME) resolves; cache.addAll(SHELL_ASSETS) starts.
InstallOpen ==
  /\ swState = "installing" /\ swPc = "open"
  /\ caches' = Open(caches, CACHE_NAME)
  /\ swPc' = "addAll"
  /\ UNCHANGED << otherVars, swState, skipWaitingFlag, toDelete, reaped, active, controller,
                  h, pendingPuts, pageVars, delivered >>

\* Every asset was retrieved: the batch is written, the worker is installed.
InstallAddAllOk ==
  /\ swState = "installing" /\ swPc = "addAll"
  /\ caches' = PutAll(caches, CACHE_NAME)
  /\ swState' = "installed"
  /\ swPc' = "-"
  /\ UNCHANGED << otherVars, skipWaitingFlag, toDelete, reaped, active, controller, h,
                  pendingPuts, pageVars, delivered >>

\* Mutant of InstallAddAllFail: the assets are added one by one and the
\* failure of one is caught, so the install succeeds with the others written.
InstallAddAllFailSwallowed(bad) ==
  /\ swState = "installing" /\ swPc = "addAll"
  /\ bad \in 1..Len(SHELL_ASSETS)
  /\ caches' = [caches EXCEPT ![IndexOf(caches, CACHE_NAME)].entries =
                  [k \in { Resolve(SHELL_ASSETS[i]) : i \in 1..(bad - 1) }
                     |-> Response(200, k, "v3")] @@ @]
  /\ swState' = "installed"
  /\ swPc' = "-"
  /\ UNCHANGED << otherVars, skipWaitingFlag, toDelete, reaped, active, controller, h,
                  pendingPuts, pageVars, delivered >>

\* The retrieval of asset number bad failed (rejected, or not ok): addAll
\* rejects, nothing is written, the install fails.
InstallAddAllFail(bad) ==
  /\ swState = "installing" /\ swPc = "addAll"
  /\ bad \in 1..Len(SHELL_ASSETS)
  /\ swState' = "redundant"
  /\ swPc' = "-"
  /\ UNCHANGED << otherVars, caches, skipWaitingFlag, toDelete, reaped, active, controller,
                  h, pendingPuts, pageVars, delivered >>

\* ---------------------------------------------------- activation transition
\* Mutant of ShouldDelete: every store but the current shell store is reaped.
ShouldDeleteNotCurrent(k) == k # CACHE_NAME

\* Mutant of ShouldDelete: every store of the application's family is kept.
ShouldDeleteKeepFamily(k) == ~StartsWith(k, <<"calmstart">>)

\* k => caches.delete(k) is called for these names.
ShouldDelete(k) == k # CACHE_NAME /\ ~StartsWith(k, AudioFamily)

\* The installed worker becomes the active one (it does not wait: the skip
\* waiting flag is set, or there is no active worker) and its activate event
\* runs: caches.keys() is pending, self.clients.claim() has run.
ActivateEvent ==
  /\ swState = "installed"
  /\ skipWaitingFlag \/ active = "none"
  /\ swState' = "activating"
  /\ swPc' = "keys"
  /\ active' = "current"
  /\ controller' = "current"
  /\ UNCHANGED << otherVars, caches, skipWaitingFlag, toDelete, reaped, h, pendingPuts,
                  pageVars, delivered >>

\* caches.keys() resolves; the deletions start.
ActivateKeys ==
  /\ swState = "activating" /\ swPc = "keys"
  /\ toDelete' = { k \in StoreNames(caches) : ShouldDelete(k) }
  /\ swPc' = "deleting"
  /\ UNCHANGED << otherVars, caches, swState, skipWaitingFlag, reaped, active, controller,
                  h, pendingPuts, pageVars, delivered >>

\* One caches.delete(k) settles.
ActivateDelete(k) ==
  /\ swState = "activating" /\ swPc = "deleting"
  /\ k \in toDelete
  /\ caches' = DeleteStore(caches, k)
  /\ toDelete' = toDelete \ {k}
  /\ reaped' = reaped \cup {k}
  /\ UNCHANGED << otherVars, swState, swPc, skipWaitingFlag, active, controller, h,
                  pendingPuts, pageVars, delivered >>

\* Promise.all settles: the worker is activated and fetch events reach it.
ActivateSettled ==
  /\ swState = "activating" /\ swPc = "deleting"
  /\ toDelete = {}
  /\ swState' = "activated"
  /\ swPc' = "-"
  /\ UNCHANGED << otherVars, caches, skipWaitingFlag, toDelete, reaped, active, controller,
                  h, pendingPuts, pageVars, delivered >>

\* -------------------------------------------------------------- fetch event
\* A fetch event being handled: the promise it waits for (pc), and, once the
\* promise given to respondWith has settled (pc = "done"), what it settled
\* with, the store or network it came from and the network fetches made.
Handling(req, pc) ==
  [pc |-> pc, req |-> req, nfetch |-> 0, result |-> Null, src |-> NoSource]

Done(req, nfetch, result, src) ==
  [pc |-> "done", req |-> req, nfetch |-> nfetch, result |-> result, src |-> src]

Network == <<"network">>

InFlight ==
  Cardinality(h) + Cardinality(pendingPuts)
  + Cardinality(tg) + Cardinality(ic)

\* The handler up to its first pending promise: caches.match of the shell
\* branch, caches.open of the audio branch, fetch of the default branch.
Dispatch(req) ==
  CASE Classify(req) = "shell" -> Handling(req, "match")
    [] Classify(req) = "audio" -> Handling(req, "open")
    [] OTHER -> Handling(req, "fetch")

\* A controlled page issues a request; the event reaches the worker once it
\* is activated.
FetchEvent(req) ==
  /\ InFlight < MaxInFlight
  /\ controller = "current" /\ swState = "activated"
  /\ h' = h \cup {Dispatch(req)}
  /\ UNCHANGED << otherVars, caches, swVars, pendingPuts, pageVars, delivered >>

\* Mutant of ShellMatched: the shell is fetched whatever the stores hold.
ShellMatchedNetworkFirst(hd, cs) == [hd EXCEPT !.pc = "fetch"]

\* Shell: caches.match(event.request).then(resp => resp || fetch(...)).
ShellMatched(hd, cs) ==
  IF MatchAny(cs, hd.req) # Absent
  THEN Done(hd.req, 0, MatchAny(cs, hd.req), MatchAnySource(cs, hd.req))
  ELSE [hd EXCEPT !.pc = "fetch"]

ShellMatch(hd) ==
  /\ hd \in h /\ hd.pc = "match"
  /\ h' = (h \ {hd}) \cup {ShellMatched(hd, caches)}
  /\ UNCHANGED << otherVars, caches, swVars, pendingPuts, pageVars, delivered >>

\* Shell: the fetch settles and its outcome is the handler's.
ShellFetch(hd, out) ==
  /\ hd \in h /\ hd.pc = "fetch" /\ Classify(hd.req) = "shell"
  /\ out \in NetOutcomes(hd.req)
  /\ h' = (h \ {hd}) \cup {Done(hd.req, 1, out, Network)}
  /\ UNCHANGED << otherVars, caches, swVars, pendingPuts, pageVars, delivered >>

\* Audio: caches.open('calmstart-audio-v1') resolves.
AudioOpen(hd) ==
  /\ hd \in h /\ hd.pc = "open"
  /\ caches' = Open(caches, AUDIO_CACHE)
  /\ h' = (h \ {hd}) \cup {[hd EXCEPT !.pc = "amatch"]}
  /\ UNCHANGED << otherVars, swVars, pendingPuts, pageVars, delivered >>

\* Mutant of AudioMatched: the cached entry is ignored and the file fetched.
AudioMatchedRefetch(hd, cs) == [hd EXCEPT !.pc = "fetch"]

\* Audio: cache.match(event.request) resolves; if (cached) return cached;
\* otherwise the fetch is pending.
AudioMatched(hd, cs) ==
  IF Match(cs, AUDIO_CACHE, hd.req) # Absent
  THEN Done(hd.req, 0, Match(cs, AUDIO_CACHE, hd.req), AUDIO_CACHE)
  ELSE [hd EXCEPT !.pc = "fetch"]

AudioMatch(hd) ==
  /\ hd \in h /\ hd.pc = "amatch"
  /\ h' = (h \ {hd}) \cup {AudioMatched(hd, caches)}
  /\ UNCHANGED << otherVars, caches, swVars, pendingPuts, pageVars, delivered >>

\* Mutant of AudioPuts: a failed fetch is written as an error entry.
AudioPutsAlways(req, out) ==
  {[key |-> req, resp |-> IF out = Rejected THEN NetworkError ELSE Clone(out)]}

\* Audio: the cache.put calls the handler issues when its fetch has settled
\* with out: none when the await threw, else one of resp.clone().
AudioPuts(req, out) ==
  IF out = Rejected THEN {} ELSE {[key |-> req, resp |-> Clone(out)]}

\* Audio: the fetch settles.  Rejected: the handler rejects at the await.
\* Resolved: cache.put is issued, not awaited, and resp is returned.
AudioFetch(hd, out) ==
  /\ hd \in h /\ hd.pc = "fetch" /\ Classify(hd.req) = "audio"
  /\ out \in NetOutcomes(hd.req)
  /\ h' = (h \ {hd}) \cup {Done(hd.req, 1, out, Network)}
  /\ pendingPuts' = pendingPuts \cup AudioPuts(hd.req, out)
  /\ UNCHANGED << otherVars, caches, swVars, pageVars, delivered >>

\* A cache.put of the audio branch settles: the entry is written.
PutCommit(p) ==
  /\ p \in pendingPuts
  /\ caches' = Put(caches, AUDIO_CACHE, p.key, p.resp)
  /\ pendingPuts' = pendingPuts \ {p}
  /\ UNCHANGED << otherVars, swVars, h, pageVars, delivered >>

\* Default: the fetch settles.  Resolved: return resp.  Rejected: the catch
\* block awaits caches.match(event.request).
DefaultFetched(hd, out) ==
  IF out = Rejected THEN [hd EXCEPT !.pc = "fallback", !.nfetch = 1]
  ELSE Done(hd.req, 1, out, Network)

DefaultFetch(hd, out) ==
  /\ hd \in h /\ hd.pc = "fetch" /\ Classify(hd.req) = "default"
  /\ out \in NetOutcomes(hd.req)
  /\ h' = (h \ {hd}) \cup {DefaultFetched(hd, out)}
  /\ UNCHANGED << otherVars, caches, swVars, pendingPuts, pageVars, delivered >>

\* Mutant of DefaultFellBack: "return cached" alone, so that a miss gives
\* respondWith no response and its promise rejects.
DefaultFellBackNoError(hd, cs) ==
  IF MatchAny(cs, hd.req) # Absent
  THEN Done(hd.req, 1, MatchAny(cs, hd.req), MatchAnySource(cs, hd.req))
  ELSE Done(hd.req, 1, Rejected, NoSource)

\* Default: caches.match resolves; return cached || Response.error().
DefaultFellBack(hd, cs) ==
  IF MatchAny(cs, hd.req) # Absent
  THEN Done(hd.req, 1, MatchAny(cs, hd.req), MatchAnySource(cs, hd.req))
  ELSE Done(hd.req, 1, NetworkError, NoSource)

DefaultFallback(hd) ==
  /\ hd \in h /\ hd.pc = "fallback"
  /\ h' = (h \ {hd}) \cup {DefaultFellBack(hd, caches)}
  /\ UNCHANGED << otherVars, caches, swVars, pendingPuts, pageVars, delivered >>

\* The write-through of the audio branch answered the page with a response.
WroteThrough(hd) ==
  /\ Classify(hd.req) = "audio"
  /\ hd.nfetch = 1
  /\ hd.result # Rejected

\* The page receives what respondWith settled with.
Deliver(hd) ==
  /\ hd \in h /\ hd.pc = "done"
  /\ h' = h \ {hd}
  /\ delivered' = IF WroteThrough(hd) THEN delivered \cup {hd.req} ELSE delivered
  /\ UNCHANGED << otherVars, caches, swVars, pendingPuts, pageVars >>

\* ------------------------------------------------------------- page: app.js
\* A running call of isSessionCached(key): the promise it waits for (pc), who
\* awaits it ("status": checkOfflineStatus; "list": renderSessions), what it
\* returns, whether its catch block ran, and whether it was called after the
\* page received a write-through response for the key.
Checking(key, caller) ==
  [pc |-> "open", key |-> key, caller |-> caller, result |-> FALSE,
   err |-> FALSE, after |-> key \in delivered]

\* setNowPlaying(s): the toggle is cleared, the session becomes current and
\* checkOfflineStatus calls isSessionCached(current.file).
SetNowPlaying(file) ==
  /\ InFlight < MaxInFlight
  /\ current' = file
  /\ toggle' = FALSE
  /\ ic' = ic \cup {Checking(file, "status")}
  /\ UNCHANGED << caches, swVars, h, pendingPuts, tg, delivered >>

\* A running change handler of #offlineToggle: the promise it waits for (pc),
\* the current.file it passed to cache.add or cache.delete, the response
\* cache.add retrieved, and what the store held for the key when its write
\* or delete settled.
Toggling(pc, key, resp, before) ==
  [pc |-> pc, key |-> key, resp |-> resp, before |-> before]

\* The user flips #offlineToggle and a change handler runs.  Without a
\* current session it unchecks the box and returns; otherwise caches.open is
\* pending.
ToggleChange ==
  /\ InFlight < MaxInFlight
  /\ IF current = Null
     THEN /\ toggle' = FALSE
          /\ tg' = tg
     ELSE /\ toggle' = ~toggle
          /\ tg' = tg \cup {Toggling("open", Null, Null, Null)}
  /\ UNCHANGED << caches, swVars, h, pendingPuts, current, ic,
                  delivered >>

\* caches.open resolves; e.target.checked and current.file are read, and
\* cache.add (its fetch) or cache.delete is pending.
ToggleOpen(t) ==
  /\ t \in tg /\ t.pc = "open"
  /\ caches' = Open(caches, AUDIO_CACHE)
  /\ tg' = (tg \ {t})
           \cup {Toggling(IF toggle THEN "add" ELSE "delete", current, Null, Null)}
  /\ UNCHANGED << otherVars, swVars, h, pendingPuts, current, toggle, ic,
                  delivered >>

\* cache.add: its fetch settles.  Rejected or not ok: add rejects, the catch
\* block calls showError.  Ok: the put of the response is pending.
ToggleAddFetch(t, out) ==
  /\ t \in tg /\ t.pc = "add"
  /\ out \in NetOutcomes(t.key)
  /\ IF out = Rejected \/ out.status # 200
     THEN tg' = tg \ {t}
     ELSE tg' = (tg \ {t}) \cup {Toggling("put", t.key, out, Null)}
  /\ UNCHANGED << caches, swVars, h, pendingPuts, current, toggle, ic,
                  delivered >>

\* cache.add: the put settles; renderSessions is awaited.
ToggleAddPut(t) ==
  /\ t \in tg /\ t.pc = "put"
  /\ caches' = Put(caches, AUDIO_CACHE, t.key, t.resp)
  /\ tg' = (tg \ {t})
           \cup {Toggling("render", t.key, t.resp, Match(caches, AUDIO_CACHE, t.key))}
  /\ UNCHANGED << otherVars, swVars, h, pendingPuts, current, toggle, ic,
                  delivered >>

\* cache.delete(current.file) settles; renderSessions is awaited.
ToggleDelete(t) ==
  /\ t \in tg /\ t.pc = "delete"
  /\ caches' = Delete(caches, AUDIO_CACHE, t.key)
  /\ delivered' = delivered \ {t.key}
  /\ ic' = { IF c.key = t.key THEN [c EXCEPT !.after = FALSE] ELSE c : c \in ic }
  /\ tg' = (tg \ {t})
           \cup {Toggling("render", t.key, Absent, Match(caches, AUDIO_CACHE, t.key))}
  /\ UNCHANGED << otherVars, swVars, h, pendingPuts, current, toggle >>

\* The renderSessions the handler awaits has completed: the handler returns.
ToggleRendered(t) ==
  /\ t \in tg /\ t.pc = "render"
  /\ tg' = tg \ {t}
  /\ UNCHANGED << otherVars, caches, swVars, h, pendingPuts, current, toggle, ic, delivered >>

\* renderSessions calls isSessionCached(s.file); caches.open is pending.
IsCachedCall(file) ==
  /\ InFlight < MaxInFlight
  /\ file \in CatalogFiles
  /\ ic' = ic \cup {Checking(file, "list")}
  /\ UNCHANGED << otherVars, caches, swVars, h, pendingPuts, current, toggle, tg, delivered >>

\* caches.open resolves; cache.match is pending.
IsCachedOpen(c) ==
  /\ c \in ic /\ c.pc = "open"
  /\ caches' = Open(caches, AUDIO_CACHE)
  /\ ic' = (ic \ {c}) \cup {[c EXCEPT !.pc = "match"]}
  /\ UNCHANGED << otherVars, swVars, h, pendingPuts, current, toggle, tg, delivered >>

\* cache.match resolves; return !!response.
IsCachedMatch(c) ==
  /\ c \in ic /\ c.pc = "match"
  /\ ic' = (ic \ {c})
           \cup {[c EXCEPT !.pc = "done",
                           !.result = (Match(caches, AUDIO_CACHE, c.key) # Absent)]}
  /\ UNCHANGED << otherVars, caches, swVars, h, pendingPuts, current, toggle, tg, delivered >>

\* Mutant of IsCachedFail: the catch block returns true.
IsCachedFailOpen(c) ==
  /\ c \in ic /\ c.pc \in {"open", "match"}
  /\ ic' = (ic \ {c}) \cup {[c EXCEPT !.pc = "done", !.result = TRUE, !.err = TRUE]}
  /\ UNCHANGED << otherVars, caches, swVars, h, pendingPuts, current, toggle, tg,
                  delivered >>

\* caches.open or cache.match rejects; the catch block returns false.
IsCachedFail(c) ==
  /\ c \in ic /\ c.pc \in {"open", "match"}
  /\ ic' = (ic \ {c}) \cup {[c EXCEPT !.pc = "done", !.result = FALSE, !.err = TRUE]}
  /\ UNCHANGED << otherVars, caches, swVars, h, pendingPuts, current, toggle, tg, delivered >>

\* The caller has the answer; checkOfflineStatus assigns it to the toggle.
IsCachedReturn(c) ==
  /\ c \in ic /\ c.pc = "done"
  /\ ic' = ic \ {c}
  /\ toggle' = IF c.caller = "status" THEN c.result ELSE toggle
  /\ UNCHANGED << otherVars, caches, swVars, h, pendingPuts, current, tg, delivered >>

\* ------------------------------------------------------------ specification
Outcomes == UNION { NetOutcomes(req) : req \in Requests }

Next ==
  \/ InstallEvent
  \/ InstallOpen
  \/ InstallAddAllOk
  \/ \E bad \in 1..Len(SHELL_ASSETS) : InstallAddAllFail(bad)
  \/ ActivateEvent
  \/ ActivateKeys
  \/ \E k \in toDelete : ActivateDelete(k)
  \/ ActivateSettled
  \/ \E req \in Requests : FetchEvent(req)
  \/ \E hd \in h : ShellMatch(hd)
  \/ \E hd \in h, out \in Outcomes : ShellFetch(hd, out)
  \/ \E hd \in h : AudioOpen(hd)
  \/ \E hd \in h : AudioMatch(hd)
  \/ \E hd \in h, out \in Outcomes : AudioFetch(hd, out)
  \/ \E p \in pendingPuts : PutCommit(p)
  \/ \E hd \in h, out \in Outcomes : DefaultFetch(hd, out)
  \/ \E hd \in h : DefaultFallback(hd)
  \/ \E hd \in h : Deliver(hd)
  \/ \E file \in CatalogFiles : SetNowPlaying(file) /\ UNCHANGED otherVars
  \/ ToggleChange /\ UNCHANGED otherVars
  \/ \E t \in tg : ToggleOpen(t)
  \/ \E t \in tg, out \in Outcomes : ToggleAddFetch(t, out) /\ UNCHANGED otherVars
  \/ \E t \in tg : ToggleAddPut(t)
  \/ \E t \in tg : ToggleDelete(t)
  \/ \E t \in tg : ToggleRendered(t)
  \/ \E file \in CatalogFiles : IsCachedCall(file)
  \/ \E c \in ic : IsCachedOpen(c)
  \/ \E c \in ic : IsCachedMatch(c)
  \/ \E c \in ic : IsCachedFail(c)
  \/ \E c \in ic : IsCachedReturn(c)

Spec == Init /\ [][Next]_vars

\* ------------------------------------------------- the page on its own
\* The page where no worker intercepts (app.js line 4: no serviceWorker in
\* navigator), the user selecting either session, with the history of the
\* toggle's change events recorded.
SessionFiles == {RainFile, SeaFile}

SessionOutcomes == UNION { NetOutcomes(f) : f \in SessionFiles }

\* A session is selected: the change events before it no longer count.
Select(file) ==
  /\ SetNowPlaying(file)
  /\ lastToggle' = IF tg = {} THEN "none" ELSE "mixed"
  /\ UNCHANGED << failed, viewVars, playerVars >>

\* A change event of the toggle, recorded.
Toggled ==
  /\ ToggleChange
  /\ lastToggle' = CASE current = Null -> lastToggle
                     [] lastToggle = "mixed" -> "mixed"
                     [] toggle' -> "on"
                     [] OTHER -> "off"
  /\ UNCHANGED << failed, viewVars, playerVars >>

\* The fetch of cache.add settles, a failure recorded.
AddFetched(t, out) ==
  /\ ToggleAddFetch(t, out)
  /\ failed' = (failed \/ out = Rejected \/ out.status # 200)
  /\ UNCHANGED << lastToggle, viewVars, playerVars >>

PageNext ==
  \/ \E file \in SessionFiles : Select(file)
  \/ Toggled
  \/ \E t \in tg : ToggleOpen(t)
  \/ \E t \in tg, out \in SessionOutcomes : AddFetched(t, out)
  \/ \E t \in tg : ToggleAddPut(t)
  \/ \E t \in tg : ToggleDelete(t)
  \/ \E t \in tg : ToggleRendered(t)
  \/ \E c \in ic : IsCachedOpen(c)
  \/ \E c \in ic : IsCachedMatch(c)
  \/ \E c \in ic : IsCachedReturn(c)

PageSpec == Init /\ [][PageNext]_vars

\* ------------------------------------------------- the session list
\* renderSessions and its callers, the stores left as they are.
Matches(s, filterCategory) ==
  filterCategory = "all" \/ s.category = filterCategory

Filtered(ss, filterCategory) ==
  SelectSeq(ss, LAMBDA s : Matches(s, filterCategory))

\* An invocation suspended at await isSessionCached(s.file), s the head of todo.
Rendering(filterCategory, todo) == [filterCategory |-> filterCategory, todo |-> todo]

\* renderSessions(filterCategory) up to its first await: the list is emptied;
\* with nothing to render the invocation returns at once.
RenderSessions(ss, filterCategory) ==
  /\ Len(rd) < MaxInFlight
  /\ list' = << >>
  /\ rd' = IF Filtered(ss, filterCategory) = << >>
             THEN rd
             ELSE Append(rd, Rendering(filterCategory, Filtered(ss, filterCategory)))
  /\ lastFilter' = filterCategory

\* loadSessions: sessions.json arrives and renderSessions() is called.
LoadSessions ==
  /\ sessions = << >>
  /\ sessions' = Catalog
  /\ RenderSessions(Catalog, "all")
  /\ UNCHANGED << coreVars, lastToggle, failed, playerVars, categoryFilter >>

\* 'change' of #categoryFilter.
CategoryChange(value) ==
  /\ categoryFilter' = value
  /\ RenderSessions(sessions, value)
  /\ UNCHANGED << coreVars, lastToggle, failed, playerVars, sessions >>

\* A change handler of the offline toggle reaches its renderSessions call.
ToggleRender ==
  /\ RenderSessions(sessions, categoryFilter)
  /\ UNCHANGED << coreVars, lastToggle, failed, playerVars, sessions, categoryFilter >>

\* The await of invocation i resolves (false when the lookup failed): the item
\* is appended, and the loop suspends at the next session or returns.
RenderItem(i, ok) ==
  /\ i \in DOMAIN rd
  /\ LET r == rd[i]
         s == Head(r.todo)
         isCached == ok /\ Match(caches, AUDIO_CACHE, s.file) # Absent
     IN /\ list' = Append(list, Item(s, isCached))
        /\ rd' = IF Len(r.todo) = 1
                   THEN [j \in 1..(Len(rd) - 1) |-> IF j < i THEN rd[j] ELSE rd[j + 1]]
                   ELSE [rd EXCEPT ![i] = Rendering(r.filterCategory, Tail(r.todo))]
  /\ UNCHANGED << coreVars, lastToggle, failed, playerVars, sessions, categoryFilter, lastFilter >>

RenderInit ==
  /\ InitStores
  /\ sessions = << >>
  /\ categoryFilter = "all"
  /\ list = << >>
  /\ rd = << >>
  /\ lastFilter = "none"
  /\ InitPlayer

RenderNext ==
  \/ LoadSessions
  \/ \E value \in Filters : CategoryChange(value)
  \/ ToggleRender
  \/ \E i \in DOMAIN rd, ok \in BOOLEAN : RenderItem(i, ok)

RenderSpec == RenderInit /\ [][RenderNext]_vars

\* ------------------------------------------------- the player
\* Playback and the screen wake lock, the stores left as they are.
Sentinel(n) == [id |-> n]

\* The sentinel a granted request resolves with: one that is not held.
FreshSentinel ==
  Sentinel(CHOOSE n \in 1..MaxInFlight :
             /\ Sentinel(n) \notin held
             /\ \A m \in 1..(n - 1) : Sentinel(m) \in held)

\* Room for one more wake lock request.
CanRequest == Len(wl) + Cardinality(held) < MaxInFlight

\* releaseWakeLock(): releases the sentinel wakeLock refers to, if any.
ReleaseWakeLock ==
  /\ held' = (IF wakeLock = Null THEN held ELSE held \ {wakeLock})
  /\ wakeLock' = Null

\* playSessionById(id) up to await requestWakeLock(): setNowPlaying(s), and
\* audio.src = s.file, which pauses the element and rejects a pending play().
PlaySessionById(file) ==
  /\ CanRequest
  /\ SetNowPlaying(file)
  /\ paused' = TRUE
  /\ playPending' = FALSE
  /\ wl' = Append(wl, "play")
  /\ UNCHANGED << lastToggle, failed, viewVars, wakeLock, held, visible >>

\* 'click' of #playPause: audio.play() and its await, or audio.pause() and
\* releaseWakeLock().
PlayPause ==
  /\ current # Null
  /\ IF paused
       THEN /\ paused' = FALSE
            /\ playPending' = TRUE
            /\ UNCHANGED << wakeLock, held >>
       ELSE /\ paused' = TRUE
            /\ playPending' = FALSE
            /\ ReleaseWakeLock
  /\ UNCHANGED << coreVars, lastToggle, failed, viewVars, wl, visible >>

\* The play() of the playPause handler resolves: requestWakeLock() is called.
PlayStarted ==
  /\ playPending
  /\ CanRequest
  /\ playPending' = FALSE
  /\ wl' = Append(wl, "none")
  /\ UNCHANGED << coreVars, lastToggle, failed, viewVars, wakeLock, held, paused, visible >>

\* Request i settles: granted only while the page is shown, wakeLock then
\* refers to the new sentinel; a rejection is swallowed. playSessionById goes
\* on to audio.play().
WakeLockSettle(i, ok) ==
  /\ i \in DOMAIN wl
  /\ IF ok /\ visible
       THEN /\ wakeLock' = FreshSentinel
            /\ held' = held \cup {FreshSentinel}
       ELSE UNCHANGED << wakeLock, held >>
  /\ paused' = (IF wl[i] = "play" THEN FALSE ELSE paused)
  /\ wl' = [j \in 1..(Len(wl) - 1) |-> IF j < i THEN wl[j] ELSE wl[j + 1]]
  /\ UNCHANGED << coreVars, lastToggle, failed, viewVars, playPending, visible >>

\* 'ended' of the audio element: playback has ended, the element is paused.
Ended ==
  /\ current # Null
  /\ ~paused
  /\ ~playPending
  /\ paused' = TRUE
  /\ ReleaseWakeLock
  /\ UNCHANGED << coreVars, lastToggle, failed, viewVars, wl, playPending, visible >>

\* 'error' of the audio element: a pending play() rejects.
AudioError ==
  /\ current # Null
  /\ playPending' = FALSE
  /\ ReleaseWakeLock
  /\ UNCHANGED << coreVars, lastToggle, failed, viewVars, wl, paused, visible >>

\* 'visibilitychange': a hidden page loses its wake locks; a page shown
\* again requests one while a session plays.
VisibilityChange ==
  /\ visible' = ~visible
  /\ IF visible
       THEN /\ held' = {}
            /\ wl' = wl
       ELSE /\ held' = held
            /\ IF ~paused /\ current # Null
                 THEN CanRequest /\ wl' = Append(wl, "none")
                 ELSE wl' = wl
  /\ UNCHANGED << coreVars, lastToggle, failed, viewVars, wakeLock, paused, playPending >>

PlayerNext ==
  \/ \E file \in SessionFiles : PlaySessionById(file)
  \/ PlayPause
  \/ PlayStarted
  \/ \E i \in DOMAIN wl, ok \in BOOLEAN : WakeLockSettle(i, ok)
  \/ Ended
  \/ AudioError
  \/ VisibilityChange
  \/ \E c \in ic : IsCachedOpen(c)
  \/ \E c \in ic : IsCachedMatch(c)
  \/ \E c \in ic : IsCachedReturn(c)

PlayerSpec == Init /\ [][PlayerNext]_vars

\* ------------------------------------------------------------------ claims
AudioEntries(cs) == EntriesOf(cs, AUDIO_CACHE)

\* C1: an audio-class request whose key is in AudioStore when the handler
\* looks it up settles with exactly the stored entry, makes no network fetch
\* and writes nothing; and what the write-through path puts into the store
\* is the response it returned, so what is later served from the store is
\* what the write-through returned.
C1_AudioCacheFirst ==
  [][ /\ \A hd \in h \ h' :
           (hd.pc = "amatch" /\ Match(caches, AUDIO_CACHE, hd.req) # Absent) =>
             /\ h' \ h \subseteq
                  {Done(hd.req, 0, Match(caches, AUDIO_CACHE, hd.req), AUDIO_CACHE)}
             /\ pendingPuts' = pendingPuts
             /\ caches' = caches
      /\ \A p \in pendingPuts' \ pendingPuts :
           \E hd \in h' : /\ hd.pc = "done" /\ hd.req = p.key
                          /\ hd.src = Network /\ hd.result = p.resp
      /\ \A p \in pendingPuts \ pendingPuts' :
           Match(caches', AUDIO_CACHE, p.key) = p.resp
    ]_vars

\* An audio request was answered from AudioStore with an entry that only the
\* write-through path can have written (the toggle never ran: no session).
C1_Witness ==
  \E hd \in h : /\ hd.pc = "done" /\ Classify(hd.req) = "audio"
                /\ hd.src = AUDIO_CACHE /\ hd.nfetch = 0
                /\ hd.result = Match(caches, AUDIO_CACHE, hd.req)
                /\ current = Null

\* C2: an audio request that missed the store and whose fetch resolved made
\* one fetch and got the network's response, and an isSessionCached call for
\* its key issued after the page received the response returns true.  (Stated
\* for the runs in which no session was ever selected, so that no delete of
\* the toggle can have removed the entry.)
C2_CachedAfterResponse ==
  /\ \A hd \in h : (hd.pc = "done" /\ WroteThrough(hd)) =>
        (hd.nfetch = 1 /\ hd.src = Network)
  /\ \A c \in ic :
       (c.pc = "done" /\ c.after /\ ~c.err /\ current = Null) => c.result

\* C3: every entry of AudioStore is a successfully retrieved (2xx) response.
C3_OnlyCompleteEntries ==
  \A k \in DOMAIN AudioEntries(caches) : AudioEntries(caches)[k].status = 200

\* C4: a retrieval whose fetch fails leaves the stores as they were.  The audio
\* handler whose fetch settles ends with the fetch's own outcome, and when
\* that is a rejection nothing is written and no write is issued; a cache.add
\* of the toggle whose fetch fails writes nothing; and the entries of
\* AudioStore change only when a write issued after a resolved fetch, or a
\* delete, settles.
C4_FailedFetchLeavesStore ==
  [][ /\ \A hd \in h \ h' :
           (hd.pc = "fetch" /\ Classify(hd.req) = "audio") =>
             \A d \in h' \ h :
               /\ d.pc = "done" /\ d.req = hd.req
               /\ d.result \in NetOutcomes(hd.req)
               /\ (d.result = Rejected) =>
                    (caches' = caches /\ pendingPuts' = pendingPuts)
      /\ \A t \in tg \ tg' :
           (t.pc = "add") =>
             /\ caches' = caches /\ pendingPuts' = pendingPuts
             /\ \A u \in tg' \ tg : u.pc = "put" /\ u.resp.status = 200
      /\ \A p \in pendingPuts' : p.resp # NetworkError
      /\ (AudioEntries(caches') # AudioEntries(caches)) =>
           \/ pendingPuts' # pendingPuts
           \/ \E t \in tg \ tg' : t.pc \in {"put", "delete"}
    ]_vars

\* The audio handler's fetch failed: the failure is what the caller gets, the
\* key is still absent and no write is pending.
C4_Witness ==
  \E hd \in h : /\ hd.pc = "done" /\ Classify(hd.req) = "audio"
                /\ hd.result = Rejected
                /\ Match(caches, AUDIO_CACHE, hd.req) = Absent
                /\ pendingPuts = {}

\* C5: a default-class request never rejects: when its fetch resolves the
\* network's response is returned; when it fails the first entry matching the
\* request in any store is returned, or an explicit network-error response when
\* there is none.  Its handler writes no store.
C5_DefaultNetworkFirst ==
  /\ [](\A hd \in h :
          (hd.pc = "done" /\ Classify(hd.req) = "default") =>
            /\ hd.result # Rejected
            /\ hd.nfetch = 1
            /\ (hd.src = Network) =>
                 (hd.result \in NetOutcomes(hd.req) /\ hd.result # NetworkError)
            /\ (hd.src = NoSource) => (hd.result = NetworkError))
  /\ [][ \A hd \in h \ h' :
           /\ (Classify(hd.req) = "default") =>
                (caches' = caches /\ pendingPuts' = pendingPuts)
           /\ (hd.pc = "fallback") =>
                h' \ h \subseteq
                  { Done(hd.req, 1,
                         IF MatchAny(caches, hd.req) # Absent
                         THEN MatchAny(caches, hd.req) ELSE NetworkError,
                         MatchAnySource(caches, hd.req)) }
       ]_vars

\* A default-class request whose fetch failed was answered with the entry an
\* older audio store holds for it.
C5_Witness ==
  \E hd \in h : /\ hd.pc = "done" /\ Classify(hd.req) = "default"
                /\ hd.src = OLD_AUDIO_CACHE
                /\ hd.result = Response(200, hd.req, "v2")

\* C6: whatever the request class, the promise given to respondWith never
\* rejects.
C6_NeverRejects ==
  \A hd \in h : hd.pc = "done" => hd.result # Rejected

\* C7 (as amended): once the install has succeeded the shell store holds, and
\* keeps holding through activation and the audio and facade operations, the
\* entry written at install time for every shell asset; and every request the
\* handler classifies as shell whose URL, query string included, is the URL of
\* such an entry is answered with that entry and without a fetch.
C7_ShellServedFromInstall ==
  /\ swState \in {"installed", "activating", "activated"} =>
       \A k \in ShellKeys : Match(caches, CACHE_NAME, k) = Response(200, k, "v3")
  /\ \A hd \in h :
       (hd.pc = "done" /\ Classify(hd.req) = "shell" /\ hd.req \in ShellKeys) =>
         /\ hd.src = CACHE_NAME
         /\ hd.nfetch = 0
         /\ hd.result = Response(200, hd.req, "v3")

\* A shell request was served from the store of this version after the prior
\* version's store was reaped and while AudioStore holds an entry.
C7_Witness ==
  /\ \E hd \in h : hd.pc = "done" /\ hd.req = IndexReq /\ hd.src = CACHE_NAME
  /\ PRIOR_CACHE \in reaped
  /\ Match(caches, AUDIO_CACHE, RainFile) # Absent

\* C7 (as claimed): every request for a path of the shell asset list is
\* answered with the entry written at install time.
C7_EveryShellPath ==
  \A hd \in h :
    (hd.pc = "done" /\ Classify(hd.req) = "shell") =>
      (hd.src = CACHE_NAME /\ hd.nfetch = 0)

\* C8 (as amended): no request is answered from the prior version's shell
\* store: requests are handled only once the activation has settled, and by
\* then the prior store is deleted.
C8_PriorStoreNeverServed ==
  /\ \A hd \in h : (hd.pc = "done") => (hd.src # PRIOR_CACHE)
  /\ (h # {}) => (swState = "activated")
  /\ (swState = "activated") => (PRIOR_CACHE \notin StoreNames(caches))

\* A shell request was answered by this version after it reaped the prior
\* version's store.
C8_Witness ==
  /\ \E hd \in h : hd.pc = "done" /\ Classify(hd.req) = "shell"
                   /\ hd.src = CACHE_NAME
  /\ PRIOR_CACHE \in reaped

\* C8 (as claimed): the prior version's store is deleted before this version
\* claims the clients, and no request is answered from it.
C8_PriorStoreGoneBeforeClaim ==
  /\ \A hd \in h : (hd.pc = "done") => (hd.src # PRIOR_CACHE)
  /\ (controller = "current") => (PRIOR_CACHE \notin StoreNames(caches))

Kept(n) == n = CACHE_NAME \/ StartsWith(n, AudioFamily)

\* C9: the activation transition deletes exactly the stores that are neither
\* the current shell store nor of the audio family: those are what it sets
\* out to delete, a store disappears only by one of these deletions, every
\* other store keeps its entries in that step, and when the activation has
\* settled no such store is left.
C9_ReapsExactly ==
  /\ [](/\ \A n \in toDelete \cup reaped : ~Kept(n)
        /\ (swState = "activated") => (\A n \in StoreNames(caches) : Kept(n)))
  /\ [][ /\ (swPc = "keys" /\ swPc' = "deleting") =>
              toDelete' = { n \in StoreNames(caches) : ~Kept(n) }
         /\ \A n \in StoreNames(caches) :
              \/ /\ n \in StoreNames(caches')
                 /\ (reaped' # reaped) => (EntriesOf(caches', n) = EntriesOf(caches, n))
              \/ /\ n \in toDelete /\ n \in reaped' /\ ~Kept(n)
                 /\ swState = "activating"
       ]_vars

\* The activation has settled on a namespace that held the prior shell store,
\* an older audio store and a store of no family: the first and the last are
\* gone, the shell store, the older audio store and AudioStore are there with
\* their entries.
C9_Witness ==
  /\ swState = "activated"
  /\ reaped = {PRIOR_CACHE, TMP_CACHE}
  /\ {CACHE_NAME, OLD_AUDIO_CACHE, AUDIO_CACHE} \subseteq StoreNames(caches)
  /\ Match(caches, OLD_AUDIO_CACHE, CalmFile) = Response(200, CalmFile, "v2")
  /\ Match(caches, AUDIO_CACHE, RainFile) # Absent

Populated(cs) == ShellKeys \subseteq DOMAIN EntriesOf(cs, CACHE_NAME)

BatchSucceeded == swState \in {"installed", "activating", "activated"}

\* What C10 says of a failed install, whenever skipWaiting is called: the
\* version activates, and controls pages, only from the installed state and
\* with every shell asset in its store; a failed install writes nothing and
\* leaves the active worker and the controller as they were.
AllOrNothing ==
  /\ [](/\ BatchSucceeded => Populated(caches)
        /\ (active = "current") <=> (swState \in {"activating", "activated"})
        /\ (controller = "current") => (active = "current")
        /\ (active # "current") =>
             /\ controller = active
             /\ active = (IF PRIOR_CACHE \in StoreNames(caches) THEN "prior" ELSE "none"))
  /\ [][ /\ (swState # "redundant" /\ swState' = "redundant") =>
              /\ swState = "installing"
              /\ caches' = caches /\ active' = active /\ controller' = controller
         /\ (swState # "activating" /\ swState' = "activating") =>
              swState = "installed"
       ]_vars

\* C10 (as amended): install is all or nothing, and readiness to supersede is
\* signalled by the install event itself, before the batch settles: the flag
\* is set from then on, and takes effect only after the batch succeeded.
C10_InstallAllOrNothing ==
  /\ AllOrNothing
  /\ [](skipWaitingFlag <=> (swState # "parsed"))

\* An install failed under a prior version: that version is still the active
\* worker and the controller, and the store of this version holds nothing.
C10_Witness ==
  /\ swState = "redundant"
  /\ active = "prior" /\ controller = "prior"
  /\ CACHE_NAME \in StoreNames(caches)
  /\ DOMAIN EntriesOf(caches, CACHE_NAME) = {}

\* C10 (as claimed): install is all or nothing, and readiness to supersede is
\* signalled only when the batch succeeded.
C10_SignalledOnSuccess ==
  /\ AllOrNothing
  /\ [](skipWaitingFlag => BatchSucceeded)

\* Whether AudioStore holds an entry for the key.
Cached(cs, key) == Match(cs, AUDIO_CACHE, key) # Absent

\* An entry of AudioStore disappears only when a cache.delete of the toggle
\* for its key settles.
OnlyDeleteRemoves ==
  \A k \in DOMAIN AudioEntries(caches) \ DOMAIN AudioEntries(caches') :
    \E t \in tg \ tg' : t.pc = "delete" /\ t.key = k

\* An entry of AudioStore appears only when a write for its key settles: the
\* cache.put of the audio branch or the put of cache.add.
OnlyWritesCreate ==
  \A k \in DOMAIN AudioEntries(caches') \ DOMAIN AudioEntries(caches) :
    \/ \E p \in pendingPuts \ pendingPuts' : p.key = k
    \/ \E t \in tg \ tg' : t.pc = "put" /\ t.key = k

\* A lookup of isSessionCached that resolves returns whether AudioStore holds
\* the key at that moment, and the call touches neither the stores' entries,
\* nor the network, nor the worker.
LookupIsMembership ==
  \A c \in ic \ ic' :
    \A d \in ic' \ ic :
      (d.pc # c.pc /\ d.after = c.after) =>
        /\ d.key = c.key
        /\ (c.pc = "match") =>
             (d.pc = "done" /\ (~d.err => (d.result = Cached(caches, c.key))))
        /\ \A n \in StoreNames(caches) : EntriesOf(caches', n) = EntriesOf(caches, n)
        /\ h' = h /\ pendingPuts' = pendingPuts /\ tg' = tg

\* C11: when the cache.add of the toggle has settled, AudioStore holds the
\* retrieved (200) response under the key; the entry stays until a
\* cache.delete for the key settles; a lookup of isSessionCached returns
\* whether the key is held, without network access; and an audio request that
\* finds the key is answered from the store without a fetch.
C11_MarkedIsCached ==
  [][ /\ \A t \in tg \ tg' :
           (t.pc = "put") =>
             /\ t.resp.status = 200
             /\ Match(caches', AUDIO_CACHE, t.key) = t.resp
      /\ OnlyDeleteRemoves
      /\ LookupIsMembership
      /\ \A hd \in h \ h' :
           (hd.pc = "amatch" /\ Cached(caches, hd.req)) =>
             \A d \in h' \ h : d.pc = "done" /\ d.nfetch = 0 /\ d.src = AUDIO_CACHE
    ]_vars

\* The toggle was switched on, its handler has returned, and isSessionCached
\* answers true for the session; the worker never handled a request, so the
\* entry is the one cache.add wrote.
C11_Witness ==
  /\ swState # "activated"
  /\ toggle /\ tg = {}
  /\ \E c \in ic : /\ c.pc = "done" /\ c.key = current
                   /\ c.result /\ ~c.err
                   /\ Cached(caches, c.key)

\* C12: when the cache.delete of the toggle settles, the key is absent from
\* AudioStore, every other entry of every store is as before, and when the
\* key was not held nothing changes; the handler goes on to renderSessions,
\* not to its catch block.  The key reappears only by a write for it that
\* settles later, and a lookup of isSessionCached returns whether the key is
\* held: false as long as no such write settles.
C12_UnmarkedIsNotCached ==
  [][ /\ \A t \in tg \ tg' :
           (t.pc = "delete") =>
             /\ ~Cached(caches', t.key)
             /\ StoreNames(caches') = StoreNames(caches)
             /\ \A n \in StoreNames(caches) :
                  /\ DOMAIN EntriesOf(caches', n) =
                       DOMAIN EntriesOf(caches, n) \ (IF n = AUDIO_CACHE THEN {t.key} ELSE {})
                  /\ \A k \in DOMAIN EntriesOf(caches', n) :
                       EntriesOf(caches', n)[k] = EntriesOf(caches, n)[k]
             /\ ~Cached(caches, t.key) => (caches' = caches)
             /\ \E u \in tg' : u.pc = "render" /\ u.key = t.key /\ u.resp = Absent
      /\ OnlyWritesCreate
      /\ LookupIsMembership
    ]_vars

\* A cache.delete of the toggle removed an entry that was held: the key is
\* absent, the entry of the other session is still there, and the
\* isSessionCached call of the renderSessions that follows answers false.
C12_Witness ==
  \E t \in tg :
    /\ t.pc = "render" /\ t.resp = Absent /\ t.before # Absent
    /\ ~Cached(caches, t.key)
    /\ Cached(caches, SeaFile)
    /\ \E c \in ic : c.pc = "done" /\ c.key = t.key /\ ~c.result /\ ~c.err

\* C13: the put of cache.add leaves AudioStore with the retrieved response
\* under the key and every other entry as before; the content retrieved for a
\* key is the same at each retrieval; so a second markOffline that finds the
\* entry of the first changes nothing.
C13_MarkOfflineIdempotent ==
  [][ \A t \in tg \ tg' :
        (t.pc = "put") =>
          /\ t.resp = Response(200, t.key, "v3")
          /\ AudioEntries(caches') = (t.key :> t.resp) @@ AudioEntries(caches)
          /\ \A n \in StoreNames(caches) \ {AUDIO_CACHE} :
               EntriesOf(caches', n) = EntriesOf(caches, n)
          /\ StoreNames(caches') = StoreNames(caches)
          /\ (Match(caches, AUDIO_CACHE, t.key) = t.resp) => (caches' = caches)
    ]_vars

\* A cache.add has settled on a key that held the same response already; the
\* worker never handled a request, so the entry it found was written by an
\* earlier cache.add.  The other session's entry is there.
C13_Witness ==
  /\ swState # "activated"
  /\ \E t \in tg :
       /\ t.pc = "render" /\ t.resp # Absent
       /\ t.before = t.resp
       /\ Match(caches, AUDIO_CACHE, t.key) = t.resp
       /\ DOMAIN AudioEntries(caches) = {t.key, SeaFile}

\* C14: isSessionCached always returns a boolean to its caller: false when
\* caches.open or cache.match rejects, and true only when AudioStore holds an
\* entry for the key at the time of the lookup.
C14_IsCachedNeverRaises ==
  /\ [](\A c \in ic : /\ c.result \in BOOLEAN
                      /\ c.err => (c.pc = "done" /\ ~c.result)
                      /\ c.result => c.pc = "done")
  /\ [][ \A c \in ic \ ic' :
           \A d \in ic' \ ic :
             (d.pc # c.pc /\ d.after = c.after) =>
             /\ d.key = c.key /\ d.caller = c.caller
             /\ (c.pc = "open") => (d.pc \in {"match", "done"})
             /\ (c.pc = "match") => (d.pc = "done")
             /\ (d.pc = "done" /\ d.result) => (c.pc = "match" /\ Cached(caches, c.key))
             /\ (d.pc = "done" /\ ~d.err) => (d.result = Cached(caches, c.key))
       ]_vars

\* A lookup failed for a key that AudioStore holds: the call returned false.
C14_Witness ==
  \E c \in ic : /\ c.pc = "done" /\ c.err /\ ~c.result
                /\ Cached(caches, c.key)

\* The responses a retrieval of the key can yield: whole responses.
Retrieved(k) == { Response(st, k, "v3") : st \in {200, 404} }

\* C15: when a cache.add of the toggle and a write-through of the worker
\* write the same key, every write replaces the entry in one step by the
\* whole response its writer retrieved, so that the store holds at every
\* moment at most one entry for the key, equal to what one writer wrote.
C15_ConcurrentWritersWhole ==
  /\ [](/\ Match(caches, AUDIO_CACHE, RainFile) \in {Absent} \cup Retrieved(RainFile)
        /\ \A p \in pendingPuts : p.resp \in Retrieved(p.key)
        /\ \A t \in tg : (t.pc = "put") => (t.resp \in Retrieved(t.key)))
  /\ [][ \A k \in Requests :
           (Match(caches', AUDIO_CACHE, k) # Match(caches, AUDIO_CACHE, k)) =>
             Match(caches', AUDIO_CACHE, k) \in
               {Absent} \cup { p.resp : p \in { q \in pendingPuts \ pendingPuts' : q.key = k } }
                        \cup { t.resp : t \in { u \in tg \ tg' : u.pc = "put" /\ u.key = k } }
       ]_vars

\* The cache.add of the toggle wrote its 200 response, then the write-through
\* of the worker, pending at that time, replaced it by the 404 it had
\* retrieved: the store holds the whole response of the second writer.
C15_Witness ==
  /\ pendingPuts = {}
  /\ \E t \in tg :
       /\ t.pc = "render" /\ t.resp # Absent /\ t.resp.status = 200
       /\ Match(caches, AUDIO_CACHE, t.key) = Response(404, t.key, "v3")

\* C17: a write-through put for the key that was pending when the
\* cache.delete of the toggle settled (its response had reached the page
\* before the delete, and no request for the key runs) does not re-create the
\* entry when it settles.
C17_RemovedStaysAbsent ==
  [][ \A p \in pendingPuts \ pendingPuts' :
        ( /\ p.key \notin delivered
          /\ \A hd \in h : hd.req # p.key
          /\ \A t \in tg : t.pc = "render"
          /\ ~Cached(caches, p.key) ) =>
          ~Cached(caches', p.key)
    ]_vars

\* C16: for a fixed current session, once every change handler of the toggle
\* has returned and none has failed, the session's key is in AudioStore if and
\* only if the last change event switched the toggle on.
C16_StoreFollowsLastToggle ==
  (current # Null /\ lastToggle \in {"on", "off"} /\ tg = {} /\ ~failed) =>
    (Cached(caches, current) <=> (lastToggle = "on"))

\* C18: once every lookup of checkOfflineStatus has resolved, no change event
\* having occurred since the session was selected, the toggle shows whether
\* the current session is in AudioStore.
C18_ToggleShowsCurrent ==
  (current # Null /\ lastToggle = "none" /\ tg = {} /\ ic = {}) =>
    (toggle <=> Cached(caches, current))

\* The number of items of the list that show session s.
Shown(s) == Cardinality({ i \in DOMAIN list : list[i].id = s.id })

\* C19: once every invocation of renderSessions has completed, the list holds
\* exactly the sessions matching the filter of the invocation started last,
\* each exactly once.
C19_ListMatchesLastFilter ==
  (rd = << >> /\ lastFilter # "none") =>
    \A i \in DOMAIN sessions :
      Shown(sessions[i]) = IF Matches(sessions[i], lastFilter) THEN 1 ELSE 0

\* C20: once every pending wake lock request has settled, every sentinel that
\* was acquired and is not the one wakeLock refers to has been released, and
\* no wake lock is held while playback is paused or has ended.
C20_WakeLocksAccounted ==
  (wl = << >>) =>
    /\ \A w \in held : w = wakeLock
    /\ paused => held = {}

====
